---- MODULE Spec2Model ----
(***************************************************************************)
(* Model of appUpdateChecker.py: the Play Store date normalizer            *)
(* (parse_play_store_date), the date extractor                             *)
(* (get_play_store_update_date), and the record-store operations           *)
(* add_package, delete_package and check_updates driven by main.           *)
(*                                                                         *)
(* Strings are sequences of one-character strings, so that the regular     *)
(* expressions and strptime templates of the source are computed           *)
(* character by character.  Optional values are <<>> (None) or <<v>>.      *)
(***************************************************************************)
EXTENDS Integers, Sequences, FiniteSets, TLC

None == <<>>
Some(v) == <<v>>

(***************************************************************************)
(* Character classes of Python's re module for the characters in use.      *)
(***************************************************************************)
Digits == <<"0", "1", "2", "3", "4", "5", "6", "7", "8", "9">>

UpperLetters == <<"A", "B", "C", "D", "E", "F", "G", "H", "I", "J", "K", "L", "M",
                  "N", "O", "P", "Q", "R", "S", "T", "U", "V", "W", "X", "Y", "Z">>

LowerLetters == <<"a", "b", "c", "d", "e", "f", "g", "h", "i", "j", "k", "l", "m",
                  "n", "o", "p", "q", "r", "s", "t", "u", "v", "w", "x", "y", "z">>

Range(f) == {f[k] : k \in DOMAIN f}

DigitChars == Range(Digits)

IsDigit(c) == c \in DigitChars

\* \w : letters, digits and the underscore
WordChars == Range(Digits) \cup Range(UpperLetters) \cup Range(LowerLetters) \cup {"_"}

IsWord(c) == c \in WordChars

\* \s, and what str.strip() removes
SpaceChars == {" ", "\t", "\n", "\r"}

IsSpace(c) == c \in SpaceChars

DigitVal(c) == (CHOOSE k \in DOMAIN Digits : Digits[k] = c) - 1

UpperChars == Range(UpperLetters)

Lower(c) ==
    IF c \in UpperChars
    THEN LowerLetters[CHOOSE k \in DOMAIN UpperLetters : UpperLetters[k] = c]
    ELSE c

LowerStr(s) == [k \in DOMAIN s |-> Lower(s[k])]

RECURSIVE NumVal(_)
NumVal(s) == IF s = <<>> THEN 0 ELSE 10 * NumVal(SubSeq(s, 1, Len(s) - 1)) + DigitVal(s[Len(s)])

\* str.strip(): drop leading and trailing whitespace
RECURSIVE LStrip(_)
LStrip(s) == IF s # <<>> /\ IsSpace(s[1]) THEN LStrip(Tail(s)) ELSE s

RECURSIVE RStrip(_)
RStrip(s) == IF s # <<>> /\ IsSpace(s[Len(s)]) THEN RStrip(SubSeq(s, 1, Len(s) - 1)) ELSE s

Strip(s) == RStrip(LStrip(s))

(***************************************************************************)
(* The four excision patterns of parse_play_store_date.  A pattern is      *)
(* matched piece by piece: each piece takes the index e of the last        *)
(* character matched so far and gives the index of the last character it   *)
(* matched itself, or NoMatch.  In these patterns a greedy piece is always *)
(* followed by a literal outside its own class, so backtracking into it    *)
(* cannot make a failed match succeed.                                     *)
(***************************************************************************)
NoMatch == -1

At(s, k) == IF k \in 1..Len(s) THEN s[k] ELSE ""

\* last index of the maximal run of characters of one class from index k
RECURSIVE WordRunEnd(_, _)
WordRunEnd(s, k) == IF IsWord(At(s, k + 1)) THEN WordRunEnd(s, k + 1) ELSE k

RECURSIVE DigitRunEnd(_, _)
DigitRunEnd(s, k) == IF IsDigit(At(s, k + 1)) THEN DigitRunEnd(s, k + 1) ELSE k

RECURSIVE SpaceRunEnd(_, _)
SpaceRunEnd(s, k) == IF IsSpace(At(s, k + 1)) THEN SpaceRunEnd(s, k + 1) ELSE k

\* a literal character c
Lit(s, e, c) == IF e # NoMatch /\ At(s, e + 1) = c THEN e + 1 ELSE NoMatch

\* \w+
Word(s, e) == IF e # NoMatch /\ IsWord(At(s, e + 1)) THEN WordRunEnd(s, e + 1) ELSE NoMatch

\* \d{1,2}
Digits12(s, e) ==
    IF e # NoMatch /\ IsDigit(At(s, e + 1))
    THEN (IF IsDigit(At(s, e + 2)) THEN e + 2 ELSE e + 1)
    ELSE NoMatch

\* \d{4}
Digits4(s, e) ==
    IF e # NoMatch /\ IsDigit(At(s, e + 1)) /\ IsDigit(At(s, e + 2))
                   /\ IsDigit(At(s, e + 3)) /\ IsDigit(At(s, e + 4))
    THEN e + 4 ELSE NoMatch

\* r'(\w+ \d{1,2}, \d{4})' from index k
MatchEndA(s, k) == Digits4(s, Lit(s, Lit(s, Digits12(s, Lit(s, Word(s, k - 1), " ")), ","), " "))

\* r'(\d{1,2} \w+ \d{4})' from index k
MatchEndB(s, k) == Digits4(s, Lit(s, Word(s, Lit(s, Digits12(s, k - 1), " ")), " "))

\* r'(\w+ \d{4})' from index k
MatchEndC(s, k) == Digits4(s, Lit(s, Word(s, k - 1), " "))

\* r'(\d{1,2}/\d{1,2}/\d{4})' from index k
MatchEndD(s, k) == Digits4(s, Lit(s, Digits12(s, Lit(s, Digits12(s, k - 1), "/")), "/"))

NumPatterns == 4

\* line 89: patterns[p] matched from index k
MatchEnd(p, s, k) ==
    CASE p = 1 -> MatchEndA(s, k)
      [] p = 2 -> MatchEndB(s, k)
      [] p = 3 -> MatchEndC(s, k)
      [] OTHER -> MatchEndD(s, k)

\* the match from k to e if there is one, else what a later start gives
MatchOr(s, k, e, later) == IF e # NoMatch THEN Some(SubSeq(s, k, e)) ELSE later

\* re.search from index k on: the match at the leftmost start
RECURSIVE SearchFrom(_, _, _)
SearchFrom(p, s, k) ==
    IF k > Len(s) THEN None
    ELSE MatchOr(s, k, MatchEnd(p, s, k), SearchFrom(p, s, k + 1))

\* line 97: re.search(pattern, date_str), as Some(match.group(1)) or None
ReSearch(p, s) == SearchFrom(p, s, 1)

(***************************************************************************)
(* datetime.strptime for the four templates.  A date is Some(ordinal) with *)
(* ordinal = year * 10000 + month * 100 + day, which orders as datetime    *)
(* does; None stands for the ValueError.  The directives read the string   *)
(* one after the other, handing on [e, y, m, d]: the index of the last     *)
(* character read (NoMatch after a failure) and the fields read so far.    *)
(***************************************************************************)
MonthAbbr == << <<"j", "a", "n">>, <<"f", "e", "b">>, <<"m", "a", "r">>, <<"a", "p", "r">>,
                <<"m", "a", "y">>, <<"j", "u", "n">>, <<"j", "u", "l">>, <<"a", "u", "g">>,
                <<"s", "e", "p">>, <<"o", "c", "t">>, <<"n", "o", "v">>, <<"d", "e", "c">> >>

IsLeap(y) == y % 4 = 0 /\ (y % 100 # 0 \/ y % 400 = 0)

DaysInMonth(y, m) ==
    IF m = 2 THEN (IF IsLeap(y) THEN 29 ELSE 28)
    ELSE IF m \in {4, 6, 9, 11} THEN 30 ELSE 31

\* the defaults of strptime: 1 January 1900
Start == [e |-> 0, y |-> 1900, m |-> 1, d |-> 1]

Failed == [e |-> NoMatch, y |-> 0, m |-> 0, d |-> 0]

MonthOf(w) == IF \E m \in DOMAIN MonthAbbr : MonthAbbr[m] = w
              THEN CHOOSE m \in DOMAIN MonthAbbr : MonthAbbr[m] = w ELSE 0

\* %b : an abbreviated month name, any case
ReadMonthName(s, st) ==
    IF st.e # NoMatch /\ st.e + 3 <= Len(s) /\ MonthOf(LowerStr(SubSeq(s, st.e + 1, st.e + 3))) # 0
    THEN [st EXCEPT !.e = st.e + 3, !.m = MonthOf(LowerStr(SubSeq(s, st.e + 1, st.e + 3)))]
    ELSE Failed

\* (3[0-1]|[1-2]\d|0[1-9]|[1-9]) for %d and (1[0-2]|0[1-9]|[1-9]) for %m.
\* What follows either in the templates is never a digit, so the field is
\* the whole run of digits, one or two long, with a value in 1..max.
Num12Ok(s, e, max) ==
    /\ e # NoMatch
    /\ IsDigit(At(s, e + 1))
    /\ DigitRunEnd(s, e + 1) <= e + 2
    /\ NumVal(SubSeq(s, e + 1, DigitRunEnd(s, e + 1))) \in 1..max

\* %d
ReadDay(s, st) ==
    IF Num12Ok(s, st.e, 31)
    THEN [st EXCEPT !.e = DigitRunEnd(s, st.e + 1),
                    !.d = NumVal(SubSeq(s, st.e + 1, DigitRunEnd(s, st.e + 1)))]
    ELSE Failed

\* %m
ReadMonth(s, st) ==
    IF Num12Ok(s, st.e, 12)
    THEN [st EXCEPT !.e = DigitRunEnd(s, st.e + 1),
                    !.m = NumVal(SubSeq(s, st.e + 1, DigitRunEnd(s, st.e + 1)))]
    ELSE Failed

\* %Y : \d\d\d\d
ReadYear(s, st) ==
    IF Digits4(s, st.e) # NoMatch
    THEN [st EXCEPT !.e = st.e + 4, !.y = NumVal(SubSeq(s, st.e + 1, st.e + 4))]
    ELSE Failed

\* a blank of the template: \s+
ReadSpaces(s, st) ==
    IF st.e # NoMatch /\ IsSpace(At(s, st.e + 1))
    THEN [st EXCEPT !.e = SpaceRunEnd(s, st.e + 1)]
    ELSE Failed

\* any other character of the template
ReadLit(s, st, c) == IF Lit(s, st.e, c) # NoMatch THEN [st EXCEPT !.e = st.e + 1] ELSE Failed

\* the whole string has to be read ("unconverted data remains"), and
\* datetime(year, month, day) has to be a day of the calendar
MakeDate(s, st) ==
    IF st.e = Len(s) /\ st.y >= 1 /\ st.m \in 1..12 /\ st.d \in 1..DaysInMonth(st.y, st.m)
    THEN Some(st.y * 10000 + st.m * 100 + st.d)
    ELSE None

\* '%b %d, %Y'
StrptimeBDY(s) ==
    MakeDate(s, ReadYear(s, ReadSpaces(s, ReadLit(s, ReadDay(s, ReadSpaces(s,
                ReadMonthName(s, Start))), ","))))

\* '%d %b %Y'
StrptimeDBY(s) ==
    MakeDate(s, ReadYear(s, ReadSpaces(s, ReadMonthName(s, ReadSpaces(s, ReadDay(s, Start))))))

\* '%b %Y'
StrptimeBY(s) == MakeDate(s, ReadYear(s, ReadSpaces(s, ReadMonthName(s, Start))))

\* '%m/%d/%Y'
StrptimeMDY(s) ==
    MakeDate(s, ReadYear(s, ReadLit(s, ReadDay(s, ReadLit(s, ReadMonth(s, Start), "/")), "/")))

NumFormats == 4

\* line 102, 105: datetime.strptime(date_part, formats[f])
Strptime(f, s) ==
    CASE f = 1 -> StrptimeBDY(s)
      [] f = 2 -> StrptimeDBY(s)
      [] f = 3 -> StrptimeBY(s)
      [] OTHER -> StrptimeMDY(s)

(***************************************************************************)
(* parse_play_store_date                                                   *)
(***************************************************************************)
\* the first of two results that is not None
FirstOf(r, later) == IF r # None THEN r ELSE later

\* lines 103-107, the inner loop from format f on: the first format that
\* parses date_part returns
RECURSIVE TryFormats(_, _)
TryFormats(date_part, f) ==
    IF f > NumFormats THEN None
    ELSE FirstOf(Strptime(f, date_part), TryFormats(date_part, f + 1))

\* lines 98-100
ParseMatch(match) == IF match = None THEN None ELSE TryFormats(match[1], 1)

\* Fault variant of TryPatterns: the first pattern that matches decides, and
\* a match that fails every format ends the search.
RECURSIVE TryPatterns_FirstMatchOnly(_, _)
TryPatterns_FirstMatchOnly(date_str, p) ==
    IF p > NumPatterns THEN None
    ELSE IF ReSearch(p, date_str) # None THEN ParseMatch(ReSearch(p, date_str))
    ELSE TryPatterns_FirstMatchOnly(date_str, p + 1)

\* lines 96-109, the outer loop from pattern p on.  A match whose text
\* fails every format falls out of the inner loop, and the outer loop goes
\* on with the next pattern.
RECURSIVE TryPatterns(_, _)
TryPatterns(date_str, p) ==
    IF p > NumPatterns THEN None
    ELSE FirstOf(ParseMatch(ReSearch(p, date_str)), TryPatterns(date_str, p + 1))

\* lines 81-111.  Line 83 is the body of a guard on the empty string.
parse_play_store_date(date_str) ==
    IF date_str = <<>> THEN None ELSE TryPatterns(Strip(date_str), 1)

(***************************************************************************)
(* The fetched page, as far as get_play_store_update_date reads it:        *)
(*   label   - None when no "Updated on|Last updated" text node with a     *)
(*             parent and a next sibling exists, else Some(text of that    *)
(*             next sibling);                                              *)
(*   scripts - the ld+json script blocks in document order, each None      *)
(*             (not JSON, not an object, or no dateModified key) or        *)
(*             Some(the dateModified string);                              *)
(*   divs    - the .string of the div elements in document order.          *)
(* A response is the page with its HTTP status, or a raised exception.     *)
(***************************************************************************)
HTTP_OK == 200
HTTP_NOT_FOUND == 404

NoError == [msg |-> "", code |-> 0, arg |-> <<>>]
Err(m, c, a) == [msg |-> m, code |-> c, arg |-> a]

\* Python truthiness of an Optional[str]: None and '' are falsy
Falsy(u) == u = None \/ u[1] = <<>>

\* lines 134-140: the label strategy
LabelStrategy(page) ==
    IF page.label = None THEN None ELSE Some(Strip(page.label[1]))

\* lines 144-152: the first script block that carries dateModified
RECURSIVE FirstDateModified(_)
FirstDateModified(scripts) ==
    IF scripts = <<>> THEN None
    ELSE IF Head(scripts) # None THEN Head(scripts)
    ELSE FirstDateModified(Tail(scripts))

\* lines 156-158: the first div whose string holds 'Month D, YYYY'
RECURSIVE FirstDateDiv(_)
FirstDateDiv(divs) ==
    IF divs = <<>> THEN None
    ELSE IF ReSearch(1, Head(divs)) # None THEN Some(Strip(Head(divs)))
    ELSE FirstDateDiv(Tail(divs))

\* Fault variant of ExtractUpdateDate: structured metadata is preferred
\* over the label.
ExtractUpdateDate_MetadataFirst(page) ==
    LET u1 == FirstDateModified(page.scripts)
        u2 == IF Falsy(u1) /\ LabelStrategy(page) # None THEN LabelStrategy(page) ELSE u1
        u3 == IF Falsy(u2) /\ FirstDateDiv(page.divs) # None
              THEN FirstDateDiv(page.divs) ELSE u2
    IN  u3

\* lines 131-158: update_date after the three strategies
ExtractUpdateDate(page) ==
    LET u1 == LabelStrategy(page)
        u2 == IF Falsy(u1) /\ FirstDateModified(page.scripts) # None
              THEN FirstDateModified(page.scripts) ELSE u1
        u3 == IF Falsy(u2) /\ FirstDateDiv(page.divs) # None
              THEN FirstDateDiv(page.divs) ELSE u2
    IN  u3

\* Fault variant of ValidateUpdateDate: the candidate is returned without
\* being normalized first.
ValidateUpdateDate_Unchecked(update_date) ==
    IF ~Falsy(update_date)
    THEN [update_date |-> update_date, error |-> None]
    ELSE [update_date |-> None, error |-> Some(Err("Update date not found on page", 0, <<>>))]

\* lines 160-168: validate the candidate
ValidateUpdateDate(update_date) ==
    IF ~Falsy(update_date)
    THEN IF parse_play_store_date(update_date[1]) # None
         THEN [update_date |-> update_date, error |-> None]
         ELSE [update_date |-> None,
               error |-> Some(Err("Could not parse date", 0, update_date[1]))]
    ELSE [update_date |-> None, error |-> Some(Err("Update date not found on page", 0, <<>>))]

\* lines 113-175
get_play_store_update_date(resp) ==
    CASE resp.kind = "Timeout" ->
            [update_date |-> None, error |-> Some(Err("Request timeout", 0, <<>>))]
      [] resp.kind = "RequestException" ->
            [update_date |-> None, error |-> Some(Err("Network error", 0, <<>>))]
      [] resp.kind = "Exception" ->
            [update_date |-> None, error |-> Some(Err("Parsing error", 0, <<>>))]
      [] OTHER ->
            IF resp.status = HTTP_NOT_FOUND
            THEN [update_date |-> None, error |-> Some(Err("App not found in Play Store", 0, <<>>))]
            ELSE IF resp.status # HTTP_OK
            THEN [update_date |-> None, error |-> Some(Err("HTTP", resp.status, <<>>))]
            ELSE ValidateUpdateDate(ExtractUpdateDate(resp.page))

(***************************************************************************)
(* Bounds and the finite sets the inputs are drawn from.                   *)
(***************************************************************************)
MaxFetches == 3     \* page fetches (one clock tick each) in a behaviour
MaxScripts == 2     \* ld+json script blocks on a page
MaxDivs == 2        \* div elements with a string on a page
MaxSegments == 2    \* segments of a raw string handed to the normalizer

Packages == {"com.a", "com.b"}

Jan5 == <<"J", "a", "n", " ", "5", ",", " ", "2", "0", "2", "4">>
Jan6 == <<"J", "a", "n", " ", "6", ",", " ", "2", "0", "2", "4">>
Jan5Alt == <<"5", " ", "J", "a", "n", " ", "2", "0", "2", "4">>
Soon == <<"s", "o", "o", "n">>

SeqsUpTo(S, n) == UNION {[1..k -> S] : k \in 0..n}

\* what a page may show as a date
PageTexts == {Jan5, Jan6, Jan5Alt, Soon}

Page(label, scripts, divs) == [label |-> label, scripts |-> scripts, divs |-> divs]

\* pages with at most one source of a date, for the store operations
SimplePages ==
    {Page(None, <<>>, <<>>)}
    \cup {Page(Some(s), <<>>, <<>>) : s \in PageTexts \cup {<<>>}}
    \cup {Page(None, <<Some(s)>>, <<>>) : s \in {Jan6}}
    \cup {Page(None, <<>>, <<s>>) : s \in {Jan5}}

Statuses == {HTTP_OK, HTTP_NOT_FOUND, 500}

Responses ==
    {[kind |-> "Response", status |-> HTTP_OK, page |-> p] : p \in SimplePages}
    \cup {[kind |-> "Response", status |-> st, page |-> Page(None, <<>>, <<>>)] :
             st \in Statuses \ {HTTP_OK}}
    \cup {[kind |-> k, status |-> 0, page |-> Page(None, <<>>, <<>>)] :
             k \in {"Timeout", "RequestException", "Exception"}}

\* every page within the bounds, for the extractor on its own
ExtractTexts == {Jan5, Jan6, Soon}

Pages ==
    {Page(l, s, d) :
        l \in {None} \cup {Some(x) : x \in ExtractTexts \cup {<<>>, <<" ">>}},
        s \in SeqsUpTo({None} \cup {Some(x) : x \in ExtractTexts \cup {<<>>}}, MaxScripts),
        d \in SeqsUpTo(ExtractTexts, MaxDivs)}

\* raw strings for the normalizer on its own: up to MaxSegments segments,
\* a blank between two
Segments ==
    {Jan5, Jan5Alt,
     <<"J", "a", "n", " ", "2", "0", "2", "4">>,
     <<"1", "/", "5", "/", "2", "0", "2", "4">>,
     <<"F", "o", "o", " ", "5", ",", " ", "2", "0", "2", "4">>,
     <<"F", "e", "b", " ", "3", "0", ",", " ", "2", "0", "2", "4">>,
     <<"3", "2", " ", "J", "a", "n", " ", "2", "0", "2", "4">>,
     <<"F", "o", "o", " ", "2", "0", "2", "4">>,
     <<"1", "3", "/", "5", "/", "2", "0", "2", "4">>,
     <<" ", "J", "a", "n", " ", "6", ",", " ", "2", "0", "2", "4", " ">>,
     Soon}

RECURSIVE Join(_)
Join(segs) ==
    IF segs = <<>> THEN <<>>
    ELSE IF Len(segs) = 1 THEN segs[1]
    ELSE segs[1] \o <<" ">> \o Join(Tail(segs))

RawStrings == {Join(segs) : segs \in SeqsUpTo(Segments, MaxSegments)}

\* stores left by an earlier version or edited by hand: entries that are no
\* JSON object, that lack fields, or whose marker does not normalize
OldInfos ==
    {[check_date |-> 0],
     [check_date |-> 0, last_update |-> Soon],
     [check_date |-> 0, last_update |-> Jan5, last_error |-> Err("Request timeout", 0, <<>>)],
     [check_date |-> 0, last_update |-> Jan6, last_fetched |-> 0, fetch_count |-> 1,
      last_error |-> NoError]}

OldStores ==
    {<<[name |-> "com.a", dict |-> TRUE, info |-> x]>> : x \in OldInfos}
    \cup {<<[name |-> "com.a", dict |-> TRUE, info |-> x],
            [name |-> "com.b", dict |-> TRUE, info |-> y]>> :
              x \in OldInfos, y \in {[check_date |-> 0, last_update |-> Jan5]}}
    \cup {<<[name |-> "com.a", dict |-> FALSE, info |-> [check_date |-> 0]],
            [name |-> "com.b", dict |-> TRUE, info |-> [check_date |-> 0, last_update |-> Jan5]]>>}

\* The results of the two functions on the inputs above, computed once.
FetchResult == [resp \in Responses |-> get_play_store_update_date(resp)]

\* what a fetch can return
Fetches == Range(FetchResult)

\* every marker a store can hold: what a page may show, and ''
Markers == PageTexts \cup {<<>>}

Parsed == [s \in Markers |-> parse_play_store_date(s)]

\* parse_play_store_date on a marker, looked up
ParseDate(s) == Parsed[s]

(***************************************************************************)
(* The record store.  A store is the JSON object of data.json in key       *)
(* order: a sequence of entries [name, dict, info], where info is the      *)
(* record of the fields the entry carries (a legacy entry may lack some)   *)
(* and dict says whether the JSON value is an object at all.  Times are    *)
(* ticks of the clock "now"; NeverFetched stands for the '' that           *)
(* migrate_data_format gives a missing last_fetched.                       *)
(***************************************************************************)
NeverFetched == 0

Get(info, key, default) == IF key \in DOMAIN info THEN info[key] ELSE default

Names(data) == [k \in DOMAIN data |-> data[k].name]

Tracked(data, name) == \E k \in DOMAIN data : data[k].name = name

\* lines 58-71
migrate_data_format(data, t) ==
    LET dicts == SelectSeq(data, LAMBDA e : e.dict)
    IN  [k \in DOMAIN dicts |->
            [name |-> dicts[k].name,
             dict |-> TRUE,
             info |-> [check_date   |-> Get(dicts[k].info, "check_date", t),
                       last_update  |-> Get(dicts[k].info, "last_update", <<>>),
                       last_fetched |-> Get(dicts[k].info, "last_fetched", NeverFetched),
                       fetch_count  |-> Get(dicts[k].info, "fetch_count", 0),
                       last_error   |-> Get(dicts[k].info, "last_error", NoError)]]]

\* lines 46-56: the store on disk is always a JSON document here
load_data(file, t) == migrate_data_format(file, t)

\* lines 194-200
NewEntry(name, update_date, current_time) ==
    [name |-> name,
     dict |-> TRUE,
     info |-> [check_date   |-> current_time,
               last_update  |-> update_date,
               last_fetched |-> current_time,
               fetch_count  |-> 1,
               last_error   |-> NoError]]

\* line 211: del data[package_name]
Without(data, name) == SelectSeq(data, LAMBDA e : e.name # name)

(***************************************************************************)
(* The body of the loop of check_updates, for one item.                    *)
(***************************************************************************)
\* Fault variants of IsNewUpdate: an equal date counts as newer; a stored
\* marker that does not normalize counts as older.
IsNewUpdate_OrEqual(old_date, new_date) ==
    new_date # None /\ old_date # None /\ new_date[1] >= old_date[1]

IsNewUpdate_IgnoresOld(old_date, new_date) ==
    new_date # None /\ (old_date = None \/ new_date[1] > old_date[1])

\* line 273
IsNewUpdate(old_date, new_date) ==
    new_date # None /\ old_date # None /\ new_date[1] > old_date[1]

\* Fault variant of RefreshMarker: without a reported update the stored
\* marker stays.
RefreshMarker_Keeps(old_update, current_update) == old_update

\* lines 282-283: the differing marker is stored although no update is reported
RefreshMarker(old_update, current_update) ==
    IF current_update # old_update THEN current_update ELSE old_update

\* Fault variant of ClearError: an earlier error stays recorded.
ClearError_Keeps(info) == info

\* line 264
ClearError(info) == [info EXCEPT !.last_error = NoError]

\* Fault variant of OnFetchError: the failed fetch also takes the marker.
OnFetchError_DropsMarker(info, error) ==
    [info EXCEPT !.last_error = error, !.last_update = <<>>]

\* lines 258-262
OnFetchError(info, error) == [info EXCEPT !.last_error = error]

\* lines 254-256
CountFetch(info, t) ==
    [info EXCEPT !.fetch_count = Get(info, "fetch_count", 0) + 1, !.last_fetched = t]

\* lines 252-288; r is what get_play_store_update_date returned, t the clock
\* after the fetch.  The result is the item's record, the status line
\* printed for it, and what it adds to updates_found and errors_found.
CheckOne(info0, r, t) ==
    LET info == CountFetch(info0, t)
    IN  IF r.error # None
        THEN [info |-> OnFetchError(info, r.error[1]),
              line |-> "Error", shown |-> <<>>, updates |-> 0, errors |-> 1]
        ELSE LET info1          == ClearError(info)
                 old_update     == Get(info1, "last_update", <<>>)
                 current_update == r.update_date[1]
             IN  IF current_update # old_update /\ old_update # <<>>
                 THEN LET old_date == ParseDate(old_update)
                          new_date == ParseDate(current_update)
                      IN  IF IsNewUpdate(old_date, new_date)
                          THEN [info |-> [info1 EXCEPT !.last_update = current_update],
                                line |-> "NEW UPDATE!", shown |-> current_update,
                                updates |-> 1, errors |-> 0]
                          ELSE [info |-> [info1 EXCEPT !.last_update =
                                              RefreshMarker(old_update, current_update)],
                                line |-> "No updates", shown |-> old_update,
                                updates |-> 0, errors |-> 0]
                 ELSE IF current_update # <<>>
                      THEN [info |-> [info1 EXCEPT !.last_update = current_update],
                            line |-> "No updates", shown |-> current_update,
                            updates |-> 0, errors |-> 0]
                      ELSE [info |-> info1,
                            line |-> "No updates", shown |-> <<>>,
                            updates |-> 0, errors |-> 0]

\* Fault variant of NextItem: a failed item ends the loop.
NextItem_StopsOnError(i, n, failed) == IF failed THEN n + 1 ELSE i + 1

\* lines 247, 262, 296: whatever the item's outcome, the loop goes on with
\* the next item
NextItem(i, n, failed) == i + 1

\* Fault variant of FileDuringLoop: every turn of the loop saves.
FileDuringLoop_SavesEach(file, data) == data

\* lines 247-296: nothing is saved inside the loop
FileDuringLoop(file, data) == file

(***************************************************************************)
(* State.                                                                  *)
(*   file          data.json                                               *)
(*   pc            "idle" between two runs of main, "checking" inside the  *)
(*                 loop of check_updates                                   *)
(*   data, i       check_updates' dictionary and the loop index            *)
(*   updates_found, errors_found                                           *)
(*   fetched       what the last call of get_play_store_update_date        *)
(*                 returned                                                *)
(*   console       the last status line printed                            *)
(*   log           the names printed as "[i/N] Checking name..." in this   *)
(*                 run of check_updates                                    *)
(*   now           the clock                                               *)
(*   file0         history: data.json as the current run found it          *)
(*   arg, ret      argument and result of a function applied on its own    *)
(***************************************************************************)
VARIABLES file, pc, data, i, updates_found, errors_found, fetched, console, log, now,
          file0, arg, ret

vars == <<file, pc, data, i, updates_found, errors_found, fetched, console, log, now,
          file0, arg, ret>>

Line(kind, pkg, shown) == [line |-> kind, pkg |-> pkg, shown |-> shown]

NothingFetched == [update_date |-> None, error |-> None]

\* a run of main that is not in the loop of check_updates holds no loop state
NoLoop ==
    /\ pc' = "idle"
    /\ data' = <<>>
    /\ i' = 0

NoCounts ==
    /\ updates_found' = 0
    /\ errors_found' = 0
    /\ log' = <<>>

\* lines 36-41: the constructor leaves an empty store where none exists
Init ==
    /\ file = <<>>
    /\ pc = "idle"
    /\ data = <<>>
    /\ i = 0
    /\ updates_found = 0
    /\ errors_found = 0
    /\ fetched = NothingFetched
    /\ console = Line("banner", "", <<>>)
    /\ log = <<>>
    /\ now = 0
    /\ file0 = <<>>
    /\ arg = None
    /\ ret = None

\* lines 177-205, run from main (line 326)
AddPackage(package_name, r) ==
    /\ pc = "idle"
    /\ LET loaded       == load_data(file, now)
           current_time == now
       IN  IF Tracked(loaded, package_name)
           THEN /\ console' = Line("already being tracked", package_name, <<>>)
                /\ fetched' = NothingFetched
                /\ UNCHANGED <<file, now>>
           ELSE /\ now < MaxFetches
                /\ now' = now + 1
                /\ fetched' = NothingFetched
                /\ IF r.error # None
                   THEN /\ console' = Line("Cannot get update date", package_name, <<>>)
                        /\ UNCHANGED file
                   ELSE /\ file' = Append(loaded, NewEntry(package_name, r.update_date[1],
                                                           current_time))
                        /\ console' = Line("added", package_name, r.update_date[1])
    /\ file0' = file'
    /\ NoLoop
    /\ NoCounts
    /\ UNCHANGED <<arg, ret>>

\* lines 207-215, run from main (line 328)
DeletePackage(package_name) ==
    /\ pc = "idle"
    /\ LET loaded == load_data(file, now)
       IN  IF Tracked(loaded, package_name)
           THEN /\ file' = Without(loaded, package_name)
                /\ console' = Line("deleted", package_name, <<>>)
           ELSE /\ console' = Line("doesn't exist in database", package_name, <<>>)
                /\ UNCHANGED file
    /\ file0' = file'
    /\ NoLoop
    /\ NoCounts
    /\ fetched' = NothingFetched
    /\ UNCHANGED <<now, arg, ret>>

\* lines 235-245, run from main (line 333): up to the loop
CheckBegin ==
    /\ pc = "idle"
    /\ LET loaded == load_data(file, now)
       IN  IF loaded = <<>>
           THEN /\ console' = Line("Package database is empty", "", <<>>)
                /\ NoLoop
           ELSE /\ console' = Line("Checking packages", "", <<>>)
                /\ pc' = "checking"
                /\ data' = loaded
                /\ i' = 1
    /\ file0' = file
    /\ NoCounts
    /\ fetched' = NothingFetched
    /\ UNCHANGED <<file, now, arg, ret>>

\* lines 247-296: one turn of the loop
CheckItem(r) ==
    /\ pc = "checking"
    /\ i <= Len(data)
    /\ now < MaxFetches
    /\ LET out == CheckOne(data[i].info, r, now + 1)
       IN  /\ now' = now + 1
           /\ fetched' = r
           /\ log' = Append(log, data[i].name)
           /\ data' = [data EXCEPT ![i].info = out.info]
           /\ updates_found' = updates_found + out.updates
           /\ errors_found' = errors_found + out.errors
           /\ console' = Line(out.line, data[i].name, out.shown)
           /\ i' = NextItem(i, Len(data), r.error # None)
           /\ file' = FileDuringLoop(file, data')
    /\ UNCHANGED <<pc, file0, arg, ret>>

\* lines 298-305: after the loop
CheckFinish ==
    /\ pc = "checking"
    /\ i > Len(data)
    /\ file' = data
    /\ console' = Line("Check completed", "", <<>>)
    /\ NoLoop
    /\ fetched' = NothingFetched
    /\ UNCHANGED <<updates_found, errors_found, log, now, file0, arg, ret>>

\* lines 335-337: KeyboardInterrupt ends the run wherever the loop stands
Interrupt ==
    /\ pc = "checking"
    /\ console' = Line("Operation cancelled by user", "", <<>>)
    /\ NoLoop
    /\ fetched' = NothingFetched
    /\ UNCHANGED <<file, updates_found, errors_found, log, now, file0, arg, ret>>

Next ==
    \/ \E n \in Packages, r \in Fetches : AddPackage(n, r)
    \/ \E n \in Packages : DeletePackage(n)
    \/ CheckBegin
    \/ \E r \in Fetches : CheckItem(r)
    \/ CheckFinish
    \/ Interrupt

Spec == Init /\ [][Next]_vars

\* the same program started on a store that an earlier version left behind
InitOld ==
    /\ file \in OldStores
    /\ pc = "idle"
    /\ data = <<>>
    /\ i = 0
    /\ updates_found = 0
    /\ errors_found = 0
    /\ fetched = NothingFetched
    /\ console = Line("banner", "", <<>>)
    /\ log = <<>>
    /\ now = 0
    /\ file0 = file
    /\ arg = None
    /\ ret = None

SpecOld == InitOld /\ [][Next]_vars

(***************************************************************************)
(* The normalizer and the extractor applied on their own: arg is the       *)
(* input, ret is None before the call and Some(result) after it.           *)
(***************************************************************************)
Idle ==
    /\ file = <<>>
    /\ pc = "idle"
    /\ data = <<>>
    /\ i = 0
    /\ updates_found = 0
    /\ errors_found = 0
    /\ fetched = NothingFetched
    /\ console = Line("banner", "", <<>>)
    /\ log = <<>>
    /\ now = 0
    /\ file0 = <<>>

InitParse ==
    /\ Idle
    /\ arg \in RawStrings
    /\ ret = None

CallParse ==
    /\ ret = None
    /\ ret' = Some(parse_play_store_date(arg))
    /\ UNCHANGED <<file, pc, data, i, updates_found, errors_found, fetched, console, log,
                   now, file0, arg>>

SpecParse == InitParse /\ [][CallParse]_vars

InitExtract ==
    /\ Idle
    /\ arg \in Pages
    /\ ret = None

CallExtract ==
    /\ ret = None
    /\ ret' = Some(get_play_store_update_date(
                       [kind |-> "Response", status |-> HTTP_OK, page |-> arg]))
    /\ UNCHANGED <<file, pc, data, i, updates_found, errors_found, fetched, console, log,
                   now, file0, arg>>

SpecExtract == InitExtract /\ [][CallExtract]_vars

(***************************************************************************)
(* Properties.                                                             *)
(***************************************************************************)
\* a turn of the loop of check_updates
ItemStep == pc = "checking" /\ pc' = "checking" /\ now' = now + 1

Normalizes(s) == parse_play_store_date(s) # None

DateOf(s) == parse_play_store_date(s)[1]

MarkersNormalize(store) ==
    \A k \in DOMAIN store : Normalizes(store[k].info.last_update)

\* C1: started on an empty store, every marker held in data.json and in the
\* dictionary of a running check is a string that parse_play_store_date
\* normalizes.
C1_StoredMarkersNormalize == MarkersNormalize(file) /\ MarkersNormalize(data)

\* an extraction that did not normalize was recorded for an item, and the
\* item went through a check and was saved
C1_Witness ==
    \E k \in DOMAIN file :
        /\ file[k].info.last_error.msg = "Could not parse date"
        /\ file[k].info.fetch_count >= 2

\* C2: a turn of the loop whose fetch returns an error keeps every item in
\* the dictionary and leaves the item's marker (and its check_date) as it
\* was; only last_error, fetch_count and last_fetched of the item change.
C2_FailedCheckKeepsMarker ==
    [][ItemStep /\ fetched'.error # None =>
          /\ Names(data') = Names(data)
          /\ data'[i].info = [data[i].info EXCEPT !.last_error = data'[i].info.last_error,
                                                  !.fetch_count = data'[i].info.fetch_count,
                                                  !.last_fetched = data'[i].info.last_fetched]
          /\ \A k \in DOMAIN data : k # i => data'[k] = data[k]]_vars

\* a check failed for an item that holds a marker, and the marker is there
C2_Witness ==
    /\ pc = "checking"
    /\ i > 1
    /\ fetched.error # None
    /\ data[i - 1].info.last_update # <<>>
    /\ data[i - 1].info.last_error = fetched.error[1]

\* the case of a new update: a stored marker, a different fresh one, both
\* normalize, and the fresh date is strictly later
NewerCase(old, fresh) ==
    /\ old # <<>>
    /\ fresh # old
    /\ Normalizes(old)
    /\ Normalizes(fresh)
    /\ DateOf(fresh) > DateOf(old)

\* C3: a turn of the loop prints NEW UPDATE! and counts one more in
\* updates_found exactly when the fetch succeeded and NewerCase holds of the
\* stored and the fresh marker; the fresh marker is then stored.
C3_UpdateExactlyWhenNewer ==
    [][ItemStep =>
          LET upd == IF fetched'.error # None THEN FALSE
                     ELSE NewerCase(data[i].info.last_update, fetched'.update_date[1])
          IN  /\ (console'.line = "NEW UPDATE!") <=> upd
              /\ updates_found' = updates_found + (IF upd THEN 1 ELSE 0)
              /\ upd => data'[i].info.last_update = fetched'.update_date[1]]_vars

\* an update has been reported and counted
C3_Witness ==
    /\ pc = "checking"
    /\ console.line = "NEW UPDATE!"
    /\ updates_found = 1
    /\ console.shown = data[i - 1].info.last_update

\* the case the change detector cannot decide: a stored marker, a different
\* fresh one, and one of the two does not normalize
UndecidedCase(old, fresh) ==
    /\ old # <<>>
    /\ fresh # old
    /\ ~(Normalizes(old) /\ Normalizes(fresh))

\* C4 as stated: in the undecided case the outcome is one of its own,
\* distinct from Unchanged, UpdateDetected and FetchFailed, no update is
\* claimed and the marker stored afterwards is not an unparseable one.
C4_DistinctOutcome ==
    [][ItemStep /\ fetched'.error = None
                /\ UndecidedCase(data[i].info.last_update, fetched'.update_date[1]) =>
          /\ console'.line \notin {"No updates", "NEW UPDATE!", "Error"}
          /\ updates_found' = updates_found
          /\ Normalizes(data'[i].info.last_update)]_vars

\* C4, amended: in the undecided case check_updates prints the "No updates"
\* line it prints for an unchanged item, counts neither an update nor an
\* error, records no error, and stores the fresh marker, which normalizes.
C4_ReportedAsNoUpdates ==
    [][ItemStep /\ fetched'.error = None
                /\ UndecidedCase(data[i].info.last_update, fetched'.update_date[1]) =>
          /\ console'.line = "No updates"
          /\ updates_found' = updates_found
          /\ errors_found' = errors_found
          /\ data'[i].info.last_error = NoError
          /\ data'[i].info.last_update = fetched'.update_date[1]
          /\ Normalizes(data'[i].info.last_update)]_vars

\* a check has met a stored marker that does not normalize
C4_Witness ==
    /\ pc = "checking"
    /\ console.line = "No updates"
    /\ console.shown # <<>>
    /\ ~Normalizes(console.shown)
    /\ data[i - 1].info.last_update # console.shown

C6_NoSaveBeforeTheEnd ==
    (pc = "checking" \/ console.line = "Operation cancelled by user") => file = file0

\* a run was interrupted after it had checked an item
C6_Witness ==
    /\ console.line = "Operation cancelled by user"
    /\ Len(log) >= 1
    /\ updates_found + errors_found >= 1

\* C7: after a turn of the loop the item's last_error is empty when the
\* fetch returned a marker, and is the returned error otherwise.
C7_ErrorClearedOnSuccess ==
    [][ItemStep =>
          data'[i].info.last_error =
              (IF fetched'.error = None THEN NoError ELSE fetched'.error[1])]_vars

\* a successful check has cleared the error an earlier run left
C7_Witness ==
    /\ pc = "checking"
    /\ i > 1
    /\ fetched.error = None
    /\ migrate_data_format(file0, 0)[i - 1].info.last_error # NoError
    /\ data[i - 1].info.last_error = NoError

\* the candidates of the three strategies, each None when it finds nothing
\* or an empty string
LabelCandidate(page) ==
    IF page.label # None /\ Strip(page.label[1]) # <<>> THEN Some(Strip(page.label[1])) ELSE None

MetadataCandidate(page) ==
    LET with == {k \in DOMAIN page.scripts : page.scripts[k] # None}
        first == CHOOSE k \in with : \A j \in with : k <= j
    IN  IF with # {} /\ page.scripts[first][1] # <<>> THEN page.scripts[first] ELSE None

DivCandidate(page) ==
    LET with == {k \in DOMAIN page.divs :
                    \E j \in 1..Len(page.divs[k]) : MatchEndA(page.divs[k], j) # NoMatch}
        first == CHOOSE k \in with : \A j \in with : k <= j
    IN  IF with # {} THEN Some(Strip(page.divs[first])) ELSE None

FirstCandidate(page) ==
    IF LabelCandidate(page) # None THEN LabelCandidate(page)
    ELSE IF MetadataCandidate(page) # None THEN MetadataCandidate(page)
    ELSE DivCandidate(page)

\* C8: the extractor returns the candidate of the first strategy, in the
\* order label, metadata, div scan, that finds a non-empty string (as the
\* marker when it normalizes, in the error otherwise), and reports that no
\* date was found exactly when all three find nothing.
C8_FirstStrategyWins ==
    ret # None =>
        LET c == FirstCandidate(arg)
        IN  IF c = None
            THEN ret[1] = [update_date |-> None,
                           error |-> Some(Err("Update date not found on page", 0, <<>>))]
            ELSE IF Normalizes(c[1])
            THEN ret[1] = [update_date |-> c, error |-> None]
            ELSE ret[1] = [update_date |-> None,
                           error |-> Some(Err("Could not parse date", 0, c[1]))]

\* a label date and a different metadata date were on the page, and the
\* label date was returned
C8_Witness ==
    /\ ret # None
    /\ LabelCandidate(arg) # None
    /\ MetadataCandidate(arg) # None
    /\ MetadataCandidate(arg) # LabelCandidate(arg)
    /\ ret[1].update_date = LabelCandidate(arg)

Patterns == 1..NumPatterns

Formats == 1..NumFormats

Matches(p, s) == ReSearch(p, s) # None

\* the match of pattern p parses under some format
MatchParses(p, s) == Matches(p, s) /\ \E f \in Formats : Strptime(f, ReSearch(p, s)[1]) # None

FirstParse(date_part) ==
    Strptime(CHOOSE f \in Formats : /\ Strptime(f, date_part) # None
                                    /\ \A g \in Formats : g < f => Strptime(g, date_part) = None,
             date_part)

\* C9 as stated: the first pattern that matches decides; its match is
\* parsed with the formats in order, and the result is Unparseable when
\* that match fails every format.
C9_FirstMatchDecides ==
    ret # None =>
        LET s == Strip(arg)
            ms == {p \in Patterns : Matches(p, s)}
            p1 == CHOOSE p \in ms : \A q \in ms : p <= q
        IN  ret[1] = (IF ms = {} \/ ~MatchParses(p1, s) THEN None
                      ELSE FirstParse(ReSearch(p1, s)[1]))

\* C9, amended: the first pattern, in order, whose match parses under some
\* format decides, and the result is the first format's parse of that
\* match; the result is Unparseable only when no pattern has such a match.
C9_FirstParsingMatchDecides ==
    ret # None =>
        LET s == Strip(arg)
            ms == {p \in Patterns : MatchParses(p, s)}
            p1 == CHOOSE p \in ms : \A q \in ms : p <= q
        IN  ret[1] = (IF ms = {} THEN None ELSE FirstParse(ReSearch(p1, s)[1]))

\* a pattern matched, its match failed every format, and a later pattern
\* gave the date
C9_Witness ==
    /\ ret # None
    /\ ret[1] # None
    /\ \E p \in Patterns : Matches(p, Strip(arg)) /\ ~MatchParses(p, Strip(arg))
                           /\ \E q \in Patterns : q > p /\ MatchParses(q, Strip(arg))

\* C10: after a turn of the loop whose fetch returned a marker, the item
\* stores that marker, whichever branch was taken.
C10_SuccessStoresFresh ==
    [][ItemStep /\ fetched'.error = None =>
          data'[i].info.last_update = fetched'.update_date[1]]_vars

\* a successful check has replaced a marker by one of an earlier date
C10_Witness ==
    /\ pc = "checking"
    /\ i > 1
    /\ fetched.error = None
    /\ console.line = "No updates"
    /\ Normalizes(console.shown)
    /\ Normalizes(data[i - 1].info.last_update)
    /\ DateOf(data[i - 1].info.last_update) < DateOf(console.shown)
====
